---- MODULE Spec2Model ----
(***************************************************************************)
(* Volume reconstruction of terence-kim/medical-app:                       *)
(* createVolumeFromFiles (src/src/utils/volumeLoader.ts) as a state        *)
(* machine.  One action per stretch of the async function between two      *)
(* awaits: the per-file parse tasks, the synchronous join / sort /         *)
(* geometry block, one iteration of the pixel load loop, and the final     *)
(* construction of the image data.  The viewer's threshold brush          *)
(* (src/src/utils/ThresholdBrushTool.ts, _paint) and label-map extraction  *)
(* (src/src/components/CornerstoneViewer.tsx, extractLabelMap) are         *)
(* synchronous and are one action each.                                    *)
(*                                                                         *)
(* Numbers.  A JavaScript number is modelled as an exact rational <<n, d>>  *)
(* with d > 0 in lowest terms, and NaN as <<0, 0>>.  Every comparison with *)
(* NaN is false and every arithmetic operation on NaN gives NaN, as in     *)
(* IEEE 754.  The input values used below lie far from the thresholds 0.01 *)
(* and 0.1, so binary rounding cannot change a comparison.                 *)
(*                                                                         *)
(* Strings.  A DICOM tag read with dataset.string() is modelled by what    *)
(* the code does with it: a sequence of the numbers parseFloat yields for  *)
(* its backslash-separated components; the empty sequence is the absent    *)
(* (undefined) tag, which is falsy.  In-plane pixel spacing (lines 57-66)  *)
(* is read and stored by the code but takes no part in any decision, and   *)
(* is left out of the state.                                               *)
(***************************************************************************)
EXTENDS Integers, Sequences, FiniteSets

\* Largest number of input files.
MaxFiles == 3

\* Largest number of brush strokes in one run.
MaxStrokes == 2

\* Largest number of label-map extractions in one run.
MaxExtractions == 2

\* Stand-in for the default of 512 rows / columns used when the tag is
\* missing or zero (volumeLoader.ts lines 54-55), scaled down so that the
\* volume buffer stays small.
DefaultDim == 2

VARIABLES
    files,        \* the File[] argument: one record per file
    pc,           \* "parsing" | "loading" | "done"
    results,      \* outcome of each per-file parse task (Promise.all input)
    fileData,     \* parsed items, filtered and sorted
    rows,         \* rows of the volume
    columns,      \* columns of the volume
    spacingZ,     \* through-plane spacing
    origin,       \* origin of the volume
    scalarData,   \* the Int16Array volume buffer
    loadedCount,  \* slices copied so far
    i,            \* index of the load loop (0-based, as in the code)
    result        \* what the promise resolves to

VARIABLES
    stack,                \* the displayed stack: one image per sorted file
    currentImageIdIndex,  \* index of the displayed image (0-based)
    labelmaps2D,          \* label planes of the active labelmap, by key
    configuration,        \* configuration of the threshold brush
    radius,               \* brush module state: radius of the brush
    stroke,               \* the last call of _paint and what it did
    strokes,              \* number of calls of _paint so far
    fileManager,          \* number of files registered with the file manager
    labelMapLog,          \* the calls of onLabelMapChange, oldest first
    imageIds              \* the image ids of the stack

VARIABLES
    viewerResults,  \* outcome of each parse task of loadAndSortImages
    sortedFiles     \* the viewer's sortedFiles state: indices into files

VARIABLES
    filesProp,       \* the files prop of VTKViewer
    generation,      \* position of generate3DVolume: "idle" | "delay" | "building"
    isLoading,       \* state of VTKViewer
    isGenerated,     \* state of VTKViewer
    volumeMetadata,  \* state of VTKViewer; the empty sequence is null
    volume,          \* context.current.volume, the actor in the renderer
    alerts           \* failures reported by the last generate3DVolume

volumeVars == <<files, pc, results, fileData, rows, columns, spacingZ, origin,
                scalarData, loadedCount, i, result>>

viewerVars == <<stack, currentImageIdIndex, labelmaps2D, configuration,
                radius, stroke, strokes, fileManager, labelMapLog, imageIds>>

loadVars == <<viewerResults, sortedFiles>>

vtkVars == <<filesProp, generation, isLoading, isGenerated, volumeMetadata,
             volume, alerts>>

vars == <<volumeVars, viewerVars, loadVars, vtkVars>>

----------------------------------------------------------------------------
\* JavaScript numbers

NaN == <<0, 0>>

IsNaN(a) == a[2] = 0

AbsInt(n) == IF n < 0 THEN -n ELSE n

RECURSIVE GCD(_, _)
GCD(a, b) == IF b = 0 THEN a ELSE GCD(b, a % b)

\* The number n/d, d > 0, in lowest terms.
Norm(n, d) ==
    LET g == GCD(AbsInt(n), d)
    IN  <<n \div g, d \div g>>

Num(n) == <<n, 1>>

Zero == Num(0)

One == Num(1)

\* a - b
Sub(a, b) ==
    IF IsNaN(a) \/ IsNaN(b) THEN NaN
    ELSE Norm(a[1] * b[2] - b[1] * a[2], a[2] * b[2])

\* Math.abs(a)
MathAbs(a) == IF IsNaN(a) THEN NaN ELSE <<AbsInt(a[1]), a[2]>>

\* a / k for an integer k >= 1
DivInt(a, k) == IF IsNaN(a) THEN NaN ELSE Norm(a[1], a[2] * k)

\* a < b
Lt(a, b) == ~IsNaN(a) /\ ~IsNaN(b) /\ a[1] * b[2] < b[1] * a[2]

\* a > b
Gt(a, b) == Lt(b, a)

\* a <= b
Le(a, b) == ~IsNaN(a) /\ ~IsNaN(b) /\ a[1] * b[2] <= b[1] * a[2]

\* a === 0
IsZero(a) == ~IsNaN(a) /\ a[1] = 0

\* The literals 0.01 (line 83) and 0.1 (line 83).
DegenerateBound == <<1, 100>>

Tolerance == <<1, 10>>

\* Int16Array element conversion (ToInt16): the value modulo 2^16, signed.
ToInt16(v) == ((v + 32768) % 65536) - 32768

----------------------------------------------------------------------------
\* Files and their DICOM data sets

\* dataset.string('x00200032'): the components of ImagePositionPatient.
ImagePositionPatient(f) == f.pos

\* dataset.string('x00180050'): <<>> when absent, else <<parseFloat(str)>>.
SliceThickness(f) == f.thickness

\* getZPosition: the third component when the string has exactly three,
\* 0 when the tag is absent or has another number of components.
getZPosition(f) ==
    LET positions == ImagePositionPatient(f)
    IN  IF positions # <<>> /\ Len(positions) = 3 THEN positions[3] ELSE Zero

\* image.getPixelData() of the image cornerstone decodes from file number k:
\* f.npix samples.  Sample j of file k is 10*k + j, shifted above 32767 when
\* the file stores unsigned 16-bit samples with large values.
getPixelData(k, f) ==
    [j \in 1..f.npix |-> (IF f.unsigned THEN 32760 ELSE 0) + 10 * k + j]

----------------------------------------------------------------------------
\* Array.prototype.sort with the comparator (a, b) => a.z - b.z  (line 47)

\* The comparator's verdict "a before b": a.z - b.z < 0.  A NaN difference is
\* read by the sort as +0.
Before(a, b) == Lt(Sub(a.z, b.z), Zero)

\* x inserted into the sorted t after every element it is not before.
Insert(t, x) ==
    LET later == {j \in 1..Len(t) : Before(x, t[j])}
        p == IF later = {} THEN Len(t) + 1
             ELSE CHOOSE j \in later : \A m \in later : j <= m
    IN  SubSeq(t, 1, p - 1) \o <<x>> \o SubSeq(t, p, Len(t))

\* The stable sort ECMAScript prescribes for a consistent comparator.
RECURSIVE StableSort(_)
StableSort(s) ==
    IF s = <<>> THEN <<>>
    ELSE Insert(StableSort(SubSeq(s, 1, Len(s) - 1)), s[Len(s)])

\* The comparator is consistent unless some z is NaN (which compares equal
\* to everything) while two other z differ.
Consistent(s) ==
    \/ \A j \in 1..Len(s) : ~IsNaN(s[j].z)
    \/ \A j, m \in 1..Len(s) : IsNaN(s[j].z) \/ IsNaN(s[m].z) \/ s[j].z = s[m].z

Reorderings(s) ==
    LET n == Len(s)
        bij == {p \in [1..n -> 1..n] : \A j, m \in 1..n : p[j] = p[m] => j = m}
    IN  {[j \in 1..n |-> s[p[j]]] : p \in bij}

\* What fileData.sort may leave in the array: the stable sorted order, or,
\* with an inconsistent comparator, an implementation-defined order.
SortOutcomes(s) ==
    IF Consistent(s) THEN {StableSort(s)} ELSE Reorderings(s)

----------------------------------------------------------------------------
\* Geometry  (lines 50-102)

\* fileData[k].dataset
Dataset(item) == files[item.file]

\* fileData[Math.floor(fileData.length / 2)]  (line 51; sequences are 1-based)
Middle(fd) == fd[(Len(fd) \div 2) + 1]

\* uint16(tag) || 512  (lines 54-55): 0 stands for a missing or zero tag.
DimOrDefault(tag) == IF tag = 0 THEN DefaultDim ELSE tag

\* Lines 69-76: the average distance between the first and the last slice.
ComputedSpacing(fd) ==
    IF Len(fd) > 1
    THEN MathAbs(DivInt(Sub(fd[Len(fd)].z, fd[1].z), Len(fd) - 1))
    ELSE One

\* A bug that keeps only the degenerate test of line 83.
ValidatedSpacingNoTolerance(s, tag) ==
    IF tag # <<>> /\ Lt(s, DegenerateBound) THEN tag[1] ELSE s

\* Lines 79-87: the declared SliceThickness replaces a degenerate or
\* diverging computed spacing.
ValidatedSpacing(s, tag) ==
    IF tag # <<>>
    THEN LET sliceThickness == tag[1]
         IN  IF \/ Lt(s, DegenerateBound)
                \/ Gt(MathAbs(Sub(s, sliceThickness)), Tolerance)
             THEN sliceThickness
             ELSE s
    ELSE s

\* A bug that forgets the guard of line 89.
PreventZeroMissing(s) == s

\* Line 89: if (spacingZ === 0) spacingZ = 1.0
PreventZero(s) == IF IsZero(s) THEN One ELSE s

ResolveSpacingZ(fd) ==
    PreventZero(ValidatedSpacing(ComputedSpacing(fd),
                                 SliceThickness(Dataset(Middle(fd)))))

\* Lines 92-102: the first sorted slice's position, read only when the
\* middle slice has a position string.
ResolveOrigin(fd) ==
    IF ImagePositionPatient(Dataset(Middle(fd))) # <<>>
       /\ ImagePositionPatient(Dataset(fd[1])) # <<>>
    THEN ImagePositionPatient(Dataset(fd[1]))
    ELSE <<Zero, Zero, Zero>>

----------------------------------------------------------------------------
\* Results of the promise

NoResult ==
    [kind |-> "pending", origin |-> <<>>, spacingZ |-> NaN, extent |-> <<>>,
     scalars |-> <<>>]

NullResult ==
    [kind |-> "null", origin |-> <<>>, spacingZ |-> NaN, extent |-> <<>>,
     scalars |-> <<>>]

\* Lines 136-149: vtkImageData with the scalars attached.
ImageData ==
    [kind |-> "imageData", origin |-> origin, spacingZ |-> spacingZ,
     extent |-> <<0, columns - 1, 0, rows - 1, 0, Len(fileData) - 1>>,
     scalars |-> scalarData]

Pending == [st |-> "pending", file |-> 0, z |-> Zero]

Rejected == [st |-> "null", file |-> 0, z |-> Zero]

----------------------------------------------------------------------------
\* Actions

SettleInCompletionOrder(rs, k, item) ==
    [rs EXCEPT ![CHOOSE j \in 1..Len(rs) :
                    /\ rs[j].st = "pending"
                    /\ \A m \in 1..(j - 1) : rs[m].st # "pending"] = item]

\* Promise.all (line 39): the value of the k-th task is the k-th element of
\* the results, whenever the task settles.
Settle(rs, k, item) == [rs EXCEPT ![k] = item]

\* Lines 25-37: the task of file k settles: the parsed item, or null when
\* parseDicom throws.
ParseFile(k) ==
    /\ pc = "parsing"
    /\ results[k].st = "pending"
    /\ results' = Settle(results, k,
                     IF files[k].dicom
                     THEN [st |-> "ok", file |-> k, z |-> getZPosition(files[k])]
                     ELSE Rejected)
    /\ UNCHANGED <<files, pc, fileData, rows, columns, spacingZ, origin,
                   scalarData, loadedCount, i, result>>
    /\ UNCHANGED <<viewerVars, loadVars, vtkVars>>

\* results.filter(item => item !== null), in input order  (line 40)
RECURSIVE FilterNonNull(_)
FilterNonNull(rs) ==
    IF rs = <<>> THEN <<>>
    ELSE LET rest == FilterNonNull(Tail(rs))
         IN  IF Head(rs).st = "ok"
             THEN <<[file |-> Head(rs).file, z |-> Head(rs).z]>> \o rest
             ELSE rest

\* Lines 20 and 39-45: no file at all, or no file that parses: null.
ReturnNull ==
    /\ pc = "parsing"
    /\ \A k \in 1..Len(files) : results[k].st # "pending"
    /\ FilterNonNull(results) = <<>>
    /\ pc' = "done"
    /\ result' = NullResult
    /\ UNCHANGED <<files, results, fileData, rows, columns, spacingZ, origin,
                   scalarData, loadedCount, i>>
    /\ UNCHANGED <<viewerVars, loadVars, vtkVars>>

\* Lines 39-110: every task has settled; filter, sort, read the geometry
\* from the middle slice and allocate the zero-filled buffer.
JoinAndResolve ==
    /\ pc = "parsing"
    /\ \A k \in 1..Len(files) : results[k].st # "pending"
    /\ FilterNonNull(results) # <<>>
    /\ \E sorted \in SortOutcomes(FilterNonNull(results)) :
          LET middleDataset == Dataset(Middle(sorted))
              r == DimOrDefault(middleDataset.rowsTag)
              c == DimOrDefault(middleDataset.colsTag)
          IN  /\ fileData' = sorted
              /\ rows' = r
              /\ columns' = c
              /\ spacingZ' = ResolveSpacingZ(sorted)
              /\ origin' = ResolveOrigin(sorted)
              /\ scalarData' = [j \in 1..(c * r * Len(sorted)) |-> 0]
    /\ loadedCount' = 0
    /\ i' = 0
    /\ pc' = "loading"
    /\ UNCHANGED <<files, results, result>>
    /\ UNCHANGED <<viewerVars, loadVars, vtkVars>>

\* scalarData.set(pixelData, offset): each sample converted to Int16.
TypedArraySet(buf, pixelData, offset) ==
    [j \in 1..Len(buf) |->
        IF j > offset /\ j <= offset + Len(pixelData)
        THEN ToInt16(pixelData[j - offset])
        ELSE buf[j]]

\* Lines 111-133: one iteration of the load loop.
LoadSlice ==
    /\ pc = "loading"
    /\ i < Len(fileData)
    /\ LET k == fileData[i + 1].file
           f == files[k]
           pixelData == getPixelData(k, f)
           expectedSize == columns * rows
       IN  IF f.loads /\ Len(pixelData) = expectedSize
           THEN /\ scalarData' = TypedArraySet(scalarData, pixelData,
                                               i * columns * rows)
                /\ loadedCount' = loadedCount + 1
           ELSE \* loadImage rejects (catch), or the size differs (continue)
                UNCHANGED <<scalarData, loadedCount>>
    /\ i' = i + 1
    /\ UNCHANGED <<files, pc, results, fileData, rows, columns, spacingZ,
                   origin, result>>
    /\ UNCHANGED <<viewerVars, loadVars, vtkVars>>

\* Lines 135-149: the image data is built and returned, whatever
\* loadedCount is.
ReturnImageData ==
    /\ pc = "loading"
    /\ i = Len(fileData)
    /\ result' = ImageData
    /\ pc' = "done"
    /\ UNCHANGED <<files, results, fileData, rows, columns, spacingZ, origin,
                   scalarData, loadedCount, i>>
    /\ UNCHANGED <<viewerVars, loadVars, vtkVars>>

Next ==
    \/ \E k \in 1..Len(files) : ParseFile(k)
    \/ ReturnNull
    \/ JoinAndResolve
    \/ LoadSlice
    \/ ReturnImageData

----------------------------------------------------------------------------
\* Inputs

\* A file that is not DICOM: parseDicom throws and nothing else is read.
NonDicom ==
    [dicom |-> FALSE, pos |-> <<>>, thickness |-> <<>>, rowsTag |-> 0,
     colsTag |-> 0, npix |-> 0, loads |-> FALSE, unsigned |-> FALSE]

\* Through-plane coordinates: 0, 0.005, 2.5, 5 and an unparsable component.
ZValues == {Zero, <<1, 200>>, <<5, 2>>, Num(5), NaN}

\* ImagePositionPatient strings: absent, a partial pair, and triplets.
PositionTags ==
    {<<>>, <<Num(1), Num(2)>>} \cup {<<Num(1), Num(2), z>> : z \in ZValues}

\* SliceThickness strings: absent, unparsable, "-1", "0", "1.05", "2.5".
ThicknessTags ==
    {<<>>, <<NaN>>, <<Num(-1)>>, <<Zero>>, <<<<21, 20>>>>, <<<<5, 2>>>>}

\* Header dimensions with the decoded sample count: a 1 x 2 slice, and a
\* slice without dimension tags that decodes to DefaultDim x DefaultDim.
Shapes ==
    {[rowsTag |-> 1, colsTag |-> 2, npix |-> 2],
     [rowsTag |-> 0, colsTag |-> 0, npix |-> DefaultDim * DefaultDim]}

\* The record of a call of _paint: where and with which segment index it
\* was made, how it ended ("outside": line 29, "nolabelmap": line 36,
\* "painted": line 82), the counter paintedPixels, the indices assigned to,
\* the label planes before the call, and what the caller gets: returned is
\* the sequence of the returned value, empty for undefined, and thrown the
\* sequence of the thrown error, empty when the call returns.
NoStroke ==
    [outcome |-> "none", x2 |-> 0, y2 |-> 0, segment |-> 0, slice |-> 0,
     paintedPixels |-> 0, touched |-> {}, returned |-> <<>>, thrown |-> <<>>,
     before |-> <<>>]

\* No stack is displayed.
ViewerIdle ==
    /\ stack = <<>>
    /\ currentImageIdIndex = 0
    /\ labelmaps2D = <<>>
    /\ configuration = [threshold |-> 200]
    /\ radius = 1
    /\ stroke = NoStroke
    /\ strokes = 0
    /\ fileManager = 0
    /\ labelMapLog = <<>>
    /\ imageIds = <<>>

\* loadAndSortImages has not run.
LoadIdle ==
    /\ viewerResults = <<>>
    /\ sortedFiles = <<>>

\* The 3D view has no files, no volume, and no generation in flight.
VtkIdle ==
    /\ filesProp = <<>>
    /\ generation = "idle"
    /\ isLoading = FALSE
    /\ isGenerated = FALSE
    /\ volumeMetadata = <<>>
    /\ volume = <<>>
    /\ alerts = 0

InitVolume ==
    /\ pc = "parsing"
    /\ results = [k \in 1..Len(files) |-> Pending]
    /\ fileData = <<>>
    /\ rows = 0
    /\ columns = 0
    /\ spacingZ = One
    /\ origin = <<>>
    /\ scalarData = <<>>
    /\ loadedCount = 0
    /\ i = 0
    /\ result = NoResult

InitControl ==
    /\ InitVolume
    /\ ViewerIdle
    /\ LoadIdle
    /\ VtkIdle

\* n files, each not DICOM or with a position of tags; one series-wide
\* slice thickness th; well-formed signed pixel data.
GeometryFiles(n, th, tags) ==
    {[k \in 1..n |->
        IF kind[k][2]
        THEN [dicom |-> TRUE, pos |-> kind[k][1], thickness |-> th,
              rowsTag |-> 1, colsTag |-> 2, npix |-> 2,
              loads |-> TRUE, unsigned |-> FALSE]
        ELSE NonDicom] :
     kind \in [1..n -> ({NonDicom.pos} \X {FALSE}) \cup (tags \X {TRUE})]}

\* Geometry inputs: any position string per file.
InitGeometry ==
    /\ \E n \in 0..MaxFiles, th \in ThicknessTags :
          files \in GeometryFiles(n, th, PositionTags)
    /\ InitControl

\* Geometry inputs whose position strings hold only parsable numbers.
InitNumeric ==
    /\ \E n \in 0..MaxFiles, th \in ThicknessTags :
          files \in GeometryFiles(n, th,
                       {p \in PositionTags : \A j \in 1..Len(p) : ~IsNaN(p[j])})
    /\ InitControl

\* Assembly inputs: two positions, both shapes, images that load or not,
\* signed or unsigned samples.
InitAssembly ==
    /\ \E n \in 0..MaxFiles, u \in BOOLEAN :
         \E kind \in [1..n -> ({Zero, Num(5)} \X Shapes \X BOOLEAN \X {TRUE})
                              \cup {<<Zero, NonDicom, FALSE, FALSE>>}] :
            files = [k \in 1..n |->
                       IF kind[k][4]
                       THEN [dicom |-> TRUE,
                             pos |-> <<Num(1), Num(2), kind[k][1]>>,
                             thickness |-> <<>>,
                             rowsTag |-> kind[k][2].rowsTag,
                             colsTag |-> kind[k][2].colsTag,
                             npix |-> kind[k][2].npix,
                             loads |-> kind[k][3], unsigned |-> u]
                       ELSE NonDicom]
    /\ InitControl

SpecGeometry == InitGeometry /\ [][Next]_vars

SpecNumeric == InitNumeric /\ [][Next]_vars

SpecAssembly == InitAssembly /\ [][Next]_vars

----------------------------------------------------------------------------
\* The viewer: threshold brush (src/src/utils/ThresholdBrushTool.ts) and
\* label-map extraction (src/src/components/CornerstoneViewer.tsx)
\*
\* An image is a record of rows, columns, the raw pixelData (row-major, the
\* array element of index n is pixelData[n + 1]), slope and intercept.  A
\* label plane is a sequence of segment indices of the same layout; the
\* empty sequence is a plane that was never created.  Image coordinates of
\* a brush event are real numbers; they are given in half pixels, so x2 = 3
\* is x = 1.5.

\* Key of a JavaScript property access on an array: an element index, or
\* the image id string "dicomfile:n" that fileManager.add returns for the
\* n-th registered file.
ImageIdIndexKey(k) == [kind |-> "index", n |-> k]

ImageId(n) == [kind |-> "dicomfile", n |-> n]

\* array[key]: the element for an index inside the array, undefined (the
\* empty sequence) for anything else.
Property(array, key) ==
    IF key.kind = "index" /\ (key.n + 1) \in DOMAIN array
    THEN array[key.n + 1]
    ELSE <<>>

\* Line 28: the event position lies inside the image.
InPlaneCenter(image, x2, y2) ==
    ~(x2 < 0 \/ x2 >= 2 * image.columns \/ y2 < 0 \/ y2 >= 2 * image.rows)

\* Lines 47-48: the offsets (i, j) the two loops run through.
Offsets(r) == (-r..r) \X (-r..r)

\* Line 49
InDisk(o, r) == o[1] * o[1] + o[2] * o[2] <= r * r

\* Lines 50-51: Math.floor(x + i), Math.floor(y + j)
CoordX(x2, o) == (x2 + 2 * o[1]) \div 2

CoordY(y2, o) == (y2 + 2 * o[2]) \div 2

InBoundsRowOnly(image, coordX, coordY) ==
    coordY >= 0 /\ coordY < image.rows

\* Line 53
InBounds(image, coordX, coordY) ==
    coordX >= 0 /\ coordX < image.columns /\ coordY >= 0 /\ coordY < image.rows

\* Line 54
Index(image, coordX, coordY) == coordY * image.columns + coordX

RescaleNoIntercept(image, rawValue) == rawValue * image.slope

\* Line 58
Rescale(image, rawValue) == rawValue * image.slope + image.intercept

MeetsThresholdStrict(image, index, threshold) ==
    /\ (index + 1) \in DOMAIN image.pixelData
    /\ Rescale(image, image.pixelData[index + 1]) > threshold

MeetsThresholdBelow(image, index, threshold) ==
    /\ (index + 1) \in DOMAIN image.pixelData
    /\ Rescale(image, image.pixelData[index + 1]) <= threshold

\* Lines 57-62: huValue >= threshold; a read past the pixel data gives
\* undefined, a NaN huValue, and a false comparison.
MeetsThreshold(image, index, threshold) ==
    /\ (index + 1) \in DOMAIN image.pixelData
    /\ Rescale(image, image.pixelData[index + 1]) >= threshold

\* The offsets for which line 67 is executed.
PaintedOffsets(image, x2, y2, r, threshold) ==
    {o \in Offsets(r) :
        /\ InDisk(o, r)
        /\ InBounds(image, CoordX(x2, o), CoordY(y2, o))
        /\ MeetsThreshold(image, Index(image, CoordX(x2, o), CoordY(y2, o)),
                          threshold)}

\* The indices line 67 assigns to.
PaintedIndices(image, x2, y2, r, threshold) ==
    {Index(image, CoordX(x2, o), CoordY(y2, o)) :
        o \in PaintedOffsets(image, x2, y2, r, threshold)}

\* Line 67 for every painted index: labelmapData is a Uint16Array, an
\* assignment outside of it has no effect.
WriteLabels(plane, indices, activeSegmentIndex) ==
    [p \in 1..Len(plane) |->
        IF (p - 1) \in indices THEN activeSegmentIndex % 65536 ELSE plane[p]]

\* A zero-filled plane of the image's size.
EmptyPlane(image) == [p \in 1..(image.rows * image.columns) |-> 0]

\* Line 32: the label plane of the displayed image, created when absent.
CurrentLabelmap2D ==
    LET plane == Property(labelmaps2D, ImageIdIndexKey(currentImageIdIndex))
    IN  IF plane = <<>>
        THEN EmptyPlane(stack[currentImageIdIndex + 1])
        ELSE plane

\* Lines 19-83: one call of _paint, at image position (x2 / 2, y2 / 2), with
\* the active segment index s; found tells whether the segmentation module
\* yields a label plane for the element.
Paint(x2, y2, s, found) ==
    /\ stack # <<>>
    /\ strokes < MaxStrokes
    /\ strokes' = strokes + 1
    /\ LET image == stack[currentImageIdIndex + 1]
           call == [NoStroke EXCEPT !.x2 = x2, !.y2 = y2, !.segment = s,
                                    !.slice = currentImageIdIndex,
                                    !.before = labelmaps2D]
       IN  IF ~InPlaneCenter(image, x2, y2)
           THEN /\ stroke' = [call EXCEPT !.outcome = "outside"]
                /\ UNCHANGED labelmaps2D
           ELSE IF ~found
           THEN /\ stroke' = [call EXCEPT !.outcome = "nolabelmap"]
                /\ UNCHANGED labelmaps2D
           ELSE LET offsets == PaintedOffsets(image, x2, y2, radius,
                                              configuration.threshold)
                    indices == PaintedIndices(image, x2, y2, radius,
                                              configuration.threshold)
                IN  /\ labelmaps2D' =
                         [labelmaps2D EXCEPT ![currentImageIdIndex + 1] =
                             WriteLabels(CurrentLabelmap2D, indices, s)]
                    /\ stroke' = [call EXCEPT
                                    !.outcome = "painted",
                                    !.paintedPixels = Cardinality(offsets),
                                    !.touched = indices]
    /\ UNCHANGED <<stack, currentImageIdIndex, configuration, radius,
                   fileManager, labelMapLog, imageIds>>
    /\ UNCHANGED <<volumeVars, loadVars, vtkVars>>

\* The stack scroll tool shows the next or the previous image.
Scroll(d) ==
    /\ (currentImageIdIndex + d) \in 0..(Len(stack) - 1)
    /\ currentImageIdIndex' = currentImageIdIndex + d
    /\ UNCHANGED <<stack, labelmaps2D, configuration, radius, stroke, strokes,
                   fileManager, labelMapLog, imageIds>>
    /\ UNCHANGED <<volumeVars, loadVars, vtkVars>>

\* Lines 404 and 407-413 for slice sl: the file is registered once more, and
\* the plane is looked up under the image id this registration returns.
SlicePlane(sl) == Property(labelmaps2D, ImageId(fileManager + sl))

\* Lines 393-426: the binary mask, width * height elements per slice.
LabelMapData(width, height, numSlices) ==
    [p \in 1..(width * height * numSlices) |->
        IF \E sl \in 0..(numSlices - 1) :
              \E j \in 0..(Len(SlicePlane(sl)) - 1) :
                 /\ SlicePlane(sl)[j + 1] > 0
                 /\ sl * width * height + j = p - 1
        THEN 1
        ELSE 0]

\* Lines 381-431: extractLabelMap; the function has no await, it runs in
\* one step.  The log keeps, with each delivered mask, the label planes and
\* the displayed image it was built from, the image ids it looked the
\* planes up under, and the slices for which it found a plane.
ExtractLabelMap ==
    /\ Len(stack) # 0
    /\ Len(labelMapLog) < MaxExtractions
    /\ LET image == stack[currentImageIdIndex + 1]
       IN  labelMapLog' =
             Append(labelMapLog,
                    [mask |-> LabelMapData(image.columns, image.rows,
                                           Len(stack)),
                     planes |-> labelmaps2D,
                     shown |-> currentImageIdIndex,
                     ids |-> [k \in 1..Len(stack) |->
                                 ImageId(fileManager + k - 1)],
                     found |-> {sl \in 0..(Len(stack) - 1) :
                                   SlicePlane(sl) # <<>>}])
    /\ fileManager' = fileManager + Len(stack)
    /\ UNCHANGED <<stack, currentImageIdIndex, labelmaps2D, configuration,
                   radius, stroke, strokes, imageIds>>
    /\ UNCHANGED <<volumeVars, loadVars, vtkVars>>

----------------------------------------------------------------------------
\* Inputs of the viewer

\* A 3 x 3 image whose rescaled values are 150, 210, 220, 205, 300, 190,
\* 180, 250, 260 (stored values with the usual CT offset of 1024).
ImageA ==
    [rows |-> 3, columns |-> 3,
     pixelData |-> <<1174, 1234, 1244, 1229, 1324, 1214, 1204, 1274, 1284>>,
     slope |-> 1, intercept |-> -1024]

\* A 2 x 4 image whose rescaled values are 100, 160, 200, 202, 260, 0, 162,
\* 300.
ImageB ==
    [rows |-> 2, columns |-> 4,
     pixelData |-> <<100, 130, 150, 151, 180, 50, 131, 200>>,
     slope |-> 2, intercept |-> -100]

\* Thresholds of the brush: the default 200, 260, and one above every value.
Thresholds == {200, 260, 301}

\* Brush sizes.
Radii == {1, 3}

\* Segment indices: 0 erases, 1 and 2 draw.
Segments == 0..2

\* Event positions along one axis of n pixels, in half pixels: -1, 0.5, 1
\* and n.
Positions(n) == {-2, 1, 2, 2 * n}

\* The planes of a stack with every element labelled s.
Labelled(images, s) ==
    [k \in 1..Len(images) |->
        [p \in 1..(images[k].rows * images[k].columns) |-> s]]

\* Lines 196-215: the stack is built, the middle image is displayed; the
\* file manager holds one file per image.
InitStack(images) ==
    /\ stack = images
    /\ currentImageIdIndex = Len(images) \div 2
    /\ fileManager = Len(images)
    /\ imageIds = [k \in 1..Len(images) |-> ImageId(k - 1)]
    /\ stroke = NoStroke
    /\ strokes = 0
    /\ labelMapLog = <<>>
    /\ LoadIdle
    /\ VtkIdle

\* The volume loader is idle.
InitIdleLoader ==
    /\ files = <<>>
    /\ InitVolume

\* Brush inputs: a stack of two images, no plane yet or planes labelled by
\* another tool, any threshold and brush size.
InitBrush ==
    /\ InitIdleLoader
    /\ InitStack(<<ImageA, ImageB>>)
    /\ labelmaps2D \in {[k \in 1..2 |-> <<>>], Labelled(<<ImageA, ImageB>>, 1)}
    /\ configuration \in {[threshold |-> t] : t \in Thresholds}
    /\ radius \in Radii

NextBrush ==
    \/ \E x2 \in Positions(stack[currentImageIdIndex + 1].columns),
          y2 \in Positions(stack[currentImageIdIndex + 1].rows),
          s \in Segments, found \in BOOLEAN : Paint(x2, y2, s, found)
    \/ \E d \in {-1, 1} : Scroll(d)

SpecBrush == InitBrush /\ [][NextBrush]_vars

\* Extraction inputs: stacks of two images of equal or of different size,
\* no plane yet or planes labelled before, the default threshold.
InitViewer ==
    /\ InitIdleLoader
    /\ \E images \in {<<ImageA, ImageB>>, <<ImageB, ImageB>>} :
          /\ InitStack(images)
          /\ labelmaps2D \in {[k \in 1..2 |-> <<>>], Labelled(images, 1)}
    /\ configuration = [threshold |-> 200]
    /\ radius \in Radii

\* Strokes at image position (1, 1), scrolling, and extraction.
NextViewer ==
    \/ \E s \in {0, 1} : Paint(2, 2, s, TRUE)
    \/ \E d \in {-1, 1} : Scroll(d)
    \/ ExtractLabelMap

SpecViewer == InitViewer /\ [][NextViewer]_vars

----------------------------------------------------------------------------
\* loadAndSortImages (CornerstoneViewer.tsx lines 150-246) on the same files

ViewerZPositionFirst(f) ==
    LET positions == ImagePositionPatient(f)
    IN  IF positions # <<>> /\ Len(positions) = 3 THEN positions[1] ELSE Zero

\* Lines 160-168: z is the third component of a three-component position
\* string, 0 otherwise.
ViewerZPosition(f) ==
    LET positions == ImagePositionPatient(f)
    IN  IF positions # <<>> /\ Len(positions) = 3 THEN positions[3] ELSE Zero

\* Lines 155-175: the task of file k settles.
ViewerParseFile(k) ==
    /\ sortedFiles = <<>>
    /\ k \in DOMAIN viewerResults
    /\ viewerResults[k].st = "pending"
    /\ viewerResults' =
          Settle(viewerResults, k,
                 IF files[k].dicom
                 THEN [st |-> "ok", file |-> k, z |-> ViewerZPosition(files[k])]
                 ELSE Rejected)
    /\ UNCHANGED sortedFiles
    /\ UNCHANGED <<volumeVars, viewerVars, vtkVars>>

\* The image cornerstone decodes from file k: the dimensions of its header
\* and its samples, with the identity rescale.
ImageOf(k) ==
    [rows |-> files[k].rowsTag, columns |-> files[k].colsTag,
     pixelData |-> getPixelData(k, files[k]), slope |-> 1, intercept |-> 0]

\* Lines 178-220: every task has settled and some file parsed: filter, sort,
\* register the sorted files, display the middle image and set the stack.
\* With no file that parses the function returns (line 185) and nothing
\* changes.
ViewerJoin ==
    /\ sortedFiles = <<>>
    /\ \A k \in 1..Len(viewerResults) : viewerResults[k].st # "pending"
    /\ FilterNonNull(viewerResults) # <<>>
    /\ \E sorted \in SortOutcomes(FilterNonNull(viewerResults)) :
          /\ sortedFiles' = [j \in 1..Len(sorted) |-> sorted[j].file]
          /\ imageIds' = [j \in 1..Len(sorted) |-> ImageId(fileManager + j - 1)]
          /\ fileManager' = fileManager + Len(sorted)
          /\ stack' = [j \in 1..Len(sorted) |-> ImageOf(sorted[j].file)]
          /\ currentImageIdIndex' = Len(sorted) \div 2
          /\ labelmaps2D' = [j \in 1..Len(sorted) |-> <<>>]
    /\ UNCHANGED <<configuration, radius, stroke, strokes, labelMapLog,
                   viewerResults>>
    /\ UNCHANGED <<volumeVars, vtkVars>>

\* Files of a series: without position and 1 x 2, at z = 0 and 2 x 2, at
\* z = 5 and 1 x 2, or not DICOM.
SeriesFiles ==
    {[NonDicom EXCEPT !.dicom = TRUE, !.pos = <<>>, !.rowsTag = 1,
                      !.colsTag = 2, !.npix = 2, !.loads = TRUE],
     [NonDicom EXCEPT !.dicom = TRUE, !.pos = <<Num(1), Num(2), Zero>>,
                      !.rowsTag = 2, !.colsTag = 2, !.npix = 4, !.loads = TRUE],
     [NonDicom EXCEPT !.dicom = TRUE, !.pos = <<Num(1), Num(2), Num(5)>>,
                      !.rowsTag = 1, !.colsTag = 2, !.npix = 2, !.loads = TRUE],
     NonDicom}

\* The same files are given to the viewer and to the volume loader.
InitSeries ==
    /\ \E n \in 1..MaxFiles : files \in [1..n -> SeriesFiles]
    /\ InitVolume
    /\ ViewerIdle
    /\ viewerResults = [k \in 1..Len(files) |-> Pending]
    /\ sortedFiles = <<>>
    /\ VtkIdle

NextSeries ==
    \/ Next
    \/ \E k \in 1..Len(files) : ViewerParseFile(k)
    \/ ViewerJoin
    \/ \E d \in {-1, 1} : Scroll(d)
    \/ ExtractLabelMap

SpecSeries == InitSeries /\ [][NextSeries]_vars

----------------------------------------------------------------------------
\* VTKViewer: the Generate button, generate3DVolume and the reset effect
\* (VTKViewer.tsx lines 63-151; the copy in cornerstoneInit.ts lines 119-251
\* has the same control flow).
\*
\* filesProp is the files prop of the current render; files is the list
\* captured by the closure of the generate3DVolume call in flight (or last
\* finished).  The button is rendered only while neither isGenerated nor
\* isLoading holds, so at most one call is in flight.  volumeMetadata and
\* volume (context.current.volume) are <<>> for null, else a one-element
\* sequence.  alerts counts the alert() calls of the call in flight or last
\* finished.

\* mutant: a null imageData raises nothing
ThrownNever(res) == FALSE

\* imageData.getOrigin() on null raises a TypeError (line 95).
Thrown(res) == res.kind = "null"

\* onClick of the Generate button (lines 221-224), generate3DVolume up to
\* its first await (lines 86-91).
Click ==
    /\ ~isGenerated
    /\ ~isLoading
    /\ filesProp # <<>>
    /\ generation = "idle"
    /\ files' = filesProp
    /\ isLoading' = TRUE
    /\ generation' = "delay"
    /\ alerts' = 0
    /\ UNCHANGED <<pc, results, fileData, rows, columns, spacingZ, origin,
                   scalarData, loadedCount, i, result>>
    /\ UNCHANGED <<filesProp, isGenerated, volumeMetadata, volume>>
    /\ UNCHANGED <<viewerVars, loadVars>>

\* The timer of line 91 fires and createVolumeFromFiles(files) is called
\* (line 93).
AfterDelay ==
    /\ generation = "delay"
    /\ generation' = "building"
    /\ pc' = "parsing"
    /\ results' = [k \in 1..Len(files) |-> Pending]
    /\ fileData' = <<>>
    /\ rows' = 0
    /\ columns' = 0
    /\ spacingZ' = One
    /\ origin' = <<>>
    /\ scalarData' = <<>>
    /\ loadedCount' = 0
    /\ i' = 0
    /\ result' = NoResult
    /\ UNCHANGED <<files, filesProp, isLoading, isGenerated, volumeMetadata,
                   volume, alerts>>
    /\ UNCHANGED <<viewerVars, loadVars>>

\* A step of the awaited createVolumeFromFiles.
CreateVolumeStep ==
    /\ generation = "building"
    /\ Next

\* createVolumeFromFiles has resolved: lines 95-140, catch and finally
\* (lines 142-150).
Finish ==
    /\ generation = "building"
    /\ pc = "done"
    /\ IF Thrown(result)
       THEN /\ alerts' = alerts + 1
            /\ UNCHANGED <<volumeMetadata, volume, isGenerated>>
       ELSE /\ volumeMetadata' = <<[origin |-> result.origin,
                                    spacingZ |-> result.spacingZ,
                                    extent |-> result.extent]>>
            /\ volume' = <<result>>
            /\ isGenerated' = TRUE
            /\ UNCHANGED alerts
    /\ isLoading' = FALSE
    /\ generation' = "idle"
    /\ UNCHANGED <<filesProp, volumeVars, viewerVars, loadVars>>

\* The file lists the parent passes as the files prop.
VtkFileLists ==
    {<<>>,
     <<NonDicom>>,
     <<[NonDicom EXCEPT !.dicom = TRUE, !.pos = <<Num(1), Num(2), Zero>>,
                        !.rowsTag = 1, !.colsTag = 2, !.npix = 2,
                        !.loads = TRUE]>>,
     <<[NonDicom EXCEPT !.dicom = TRUE, !.pos = <<Num(1), Num(2), Num(5)>>,
                        !.rowsTag = 1, !.colsTag = 2, !.npix = 2,
                        !.loads = TRUE],
       NonDicom,
       [NonDicom EXCEPT !.dicom = TRUE, !.pos = <<Num(1), Num(2), Zero>>,
                        !.rowsTag = 1, !.colsTag = 2, !.npix = 2,
                        !.loads = TRUE]>>}

\* The parent renders VTKViewer with another files prop: the reset effect
\* runs (lines 63-83).  It does not touch isLoading nor the call in flight.
ChangeFiles ==
    /\ \E fs \in VtkFileLists \ {filesProp} : filesProp' = fs
    /\ isGenerated' = FALSE
    /\ volumeMetadata' = <<>>
    /\ volume' = <<>>
    /\ UNCHANGED <<generation, isLoading, alerts>>
    /\ UNCHANGED <<volumeVars, viewerVars, loadVars>>

\* The component after mount.
InitVtk ==
    /\ filesProp \in VtkFileLists
    /\ generation = "idle"
    /\ isLoading = FALSE
    /\ isGenerated = FALSE
    /\ volumeMetadata = <<>>
    /\ volume = <<>>
    /\ alerts = 0
    /\ InitIdleLoader
    /\ ViewerIdle
    /\ LoadIdle

NextVtk ==
    \/ Click
    \/ AfterDelay
    \/ CreateVolumeStep
    \/ Finish
    \/ ChangeFiles

SpecVtk == InitVtk /\ [][NextVtk]_vars

----------------------------------------------------------------------------
\* Vocabulary of the properties

\* The promise resolved to an image data object.
Returned == result.kind = "imageData"

\* The declared SliceThickness the resolver reads (the middle slice's).
DeclaredThickness == SliceThickness(Dataset(Middle(fileData)))

\* The through-plane coordinate a slice has by its header: the third
\* component of a well-formed triplet, and the default 0 when the position
\* is missing, partial or malformed.
DeclaredZ(f) ==
    IF Len(f.pos) = 3 /\ \A j \in 1..3 : ~IsNaN(f.pos[j]) THEN f.pos[3] ELSE Zero

DeclaredZs == {DeclaredZ(Dataset(fileData[j])) : j \in 1..Len(fileData)}

\* Largest minus smallest declared coordinate.
CoordinateSpan ==
    LET hi == CHOOSE a \in DeclaredZs : \A b \in DeclaredZs : Le(b, a)
        lo == CHOOSE a \in DeclaredZs : \A b \in DeclaredZs : Le(a, b)
    IN  Sub(hi, lo)

\* Slice j of the sorted sequence loads and has columns*rows samples.
ValidSlice(j) ==
    LET f == Dataset(fileData[j])
    IN  f.loads /\ f.npix = columns * rows

\* Slice j loads but its sample count differs from columns*rows.
MismatchedSlice(j) ==
    LET f == Dataset(fileData[j])
    IN  f.loads /\ f.npix # columns * rows

----------------------------------------------------------------------------
\* C1: for two or more accepted slices, whatever the positions and the
\* declared thickness, the through-plane spacing of the returned geometry is
\* strictly positive.
C1_SpacingPositive ==
    (Returned /\ Len(fileData) >= 2) => Gt(result.spacingZ, Zero)

\* C2 as stated: a single slice always resolves to the default spacing 1,
\* with or without a declared thickness.
C2_SingleSliceDefault ==
    (Returned /\ Len(fileData) = 1) => result.spacingZ = One

\* C2 amended: a single slice resolves to 1 when no thickness is declared or
\* the declared thickness is not a number, is 0, or lies within 0.1 of 1;
\* otherwise it resolves to the declared thickness.
C2_SingleSliceSpacing ==
    (Returned /\ Len(fileData) = 1) =>
        LET tag == DeclaredThickness
        IN  result.spacingZ =
              IF \/ tag = <<>>
                 \/ IsNaN(tag[1])
                 \/ IsZero(tag[1])
                 \/ Le(MathAbs(Sub(One, tag[1])), Tolerance)
              THEN One
              ELSE tag[1]

\* A single slice declaring thickness 2.5 is returned with spacing 2.5.
C2_Witness ==
    /\ Returned
    /\ Len(fileData) = 1
    /\ DeclaredThickness = <<<<5, 2>>>>
    /\ result.spacingZ = <<5, 2>>

\* C3: a computed spacing below 0.01 is never the spacing of the returned
\* geometry; the declared thickness or the default 1 replaces it, also when
\* no thickness is declared.
C3_DegenerateReplaced ==
    (Returned /\ Len(fileData) > 1
        /\ Lt(ComputedSpacing(fileData), DegenerateBound)) =>
        /\ result.spacingZ # ComputedSpacing(fileData)
        /\ \/ result.spacingZ = One
           \/ DeclaredThickness # <<>> /\ result.spacingZ = DeclaredThickness[1]

\* C4 as stated: with a declared thickness and n > 1 the spacing is the
\* declared thickness if the computed spacing is below 0.01 or differs from
\* it by more than 0.1, and the computed spacing otherwise.
C4_ThicknessWins ==
    (Returned /\ Len(fileData) > 1 /\ DeclaredThickness # <<>>) =>
        LET t == DeclaredThickness[1]
            c == ComputedSpacing(fileData)
        IN  result.spacingZ =
              IF Lt(c, DegenerateBound) \/ Gt(MathAbs(Sub(c, t)), Tolerance)
              THEN t
              ELSE c

\* C4 amended: as stated, except that a declared thickness of 0 that wins
\* is replaced by the default 1.
C4_ThicknessWinsUnlessZero ==
    (Returned /\ Len(fileData) > 1 /\ DeclaredThickness # <<>>) =>
        LET t == DeclaredThickness[1]
            c == ComputedSpacing(fileData)
        IN  result.spacingZ =
              IF Lt(c, DegenerateBound) \/ Gt(MathAbs(Sub(c, t)), Tolerance)
              THEN (IF IsZero(t) THEN One ELSE t)
              ELSE c

\* Two or more slices 5 apart on average with declared thickness 2.5 are
\* returned with spacing 2.5.
C4_Witness ==
    /\ Returned
    /\ Len(fileData) > 1
    /\ DeclaredThickness = <<<<5, 2>>>>
    /\ ComputedSpacing(fileData) = Num(5)
    /\ result.spacingZ = <<5, 2>>

\* C5: without a declared thickness and with n > 1 the spacing is the
\* coordinate span divided by n - 1 when the slices do not all share one
\* position, and the fallback 1 when they do.
C5_NoThicknessSpacing ==
    (Returned /\ Len(fileData) > 1 /\ DeclaredThickness = <<>>) =>
        result.spacingZ =
          IF Cardinality(DeclaredZs) = 1 THEN One
          ELSE DivInt(CoordinateSpan, Len(fileData) - 1)

\* C6: after the sort the slices are in non-decreasing order of coordinate,
\* are a permutation of the parsed input, and equal coordinates keep their
\* input order.
C6_SortedStable ==
    (fileData # <<>>) =>
        /\ \A j \in 1..(Len(fileData) - 1) : Le(fileData[j].z, fileData[j + 1].z)
        /\ Len(fileData) = Len(FilterNonNull(results))
        /\ \A x \in 1..Len(fileData) :
              \E j \in 1..Len(fileData) : fileData[j] = FilterNonNull(results)[x]
        /\ \A j, m \in 1..Len(fileData) :
              (j < m /\ fileData[j].z = fileData[m].z)
                  => fileData[j].file < fileData[m].file

\* C7: the origin of the returned geometry is the position of the first
\* sorted slice whenever that slice carries one, whatever the middle slice
\* carries.
C7_OriginFirstSlice ==
    (Returned /\ ImagePositionPatient(Dataset(fileData[1])) # <<>>) =>
        result.origin = ImagePositionPatient(Dataset(fileData[1]))

\* C8: a slice of the wrong size is skipped without aborting, the others are
\* still copied, and the result reports the number of skipped slices.
C8_SkipCountReported ==
    (pc = "done" /\ \E j \in 1..Len(fileData) : MismatchedSlice(j)) =>
        /\ Returned
        /\ loadedCount = Cardinality({j \in 1..Len(fileData) : ValidSlice(j)})
        /\ "skipped" \in DOMAIN result
        /\ result.skipped =
             Cardinality({j \in 1..Len(fileData) : MismatchedSlice(j)})

\* C9: when no slice was loaded the call fails and hands no volume to the
\* caller.
C9_NoValidDataFails ==
    (pc = "done" /\ fileData # <<>> /\ loadedCount = 0) => ~Returned

\* C10: the buffer has columns*rows*n elements; layer j holds the samples of
\* sorted slice j when it is valid and zeros when it was skipped or failed.
C10_SliceMajorLayout ==
    Returned =>
        /\ Len(result.scalars) = columns * rows * Len(fileData)
        /\ \A j \in 1..Len(fileData) : \A k \in 1..(columns * rows) :
              result.scalars[(j - 1) * columns * rows + k] =
                IF ValidSlice(j)
                THEN getPixelData(fileData[j].file, Dataset(fileData[j]))[k]
                ELSE 0

\* C11: every sample of a slice that is copied into the volume is stored
\* unchanged, whatever its value: the stored element equals the decoded
\* sample, also for unsigned samples in 32768..65535.
C11_SamplesVerbatim ==
    Returned =>
        \A j \in 1..Len(fileData) :
            ValidSlice(j) =>
                \A k \in 1..(columns * rows) :
                    result.scalars[(j - 1) * columns * rows + k] =
                        getPixelData(fileData[j].file, Dataset(fileData[j]))[k]

----------------------------------------------------------------------------
\* Vocabulary of the brush properties

\* The last call of _paint ran to its end.
Painted == stroke.outcome = "painted"

\* The image the last call was made on.
StrokeImage == stack[stroke.slice + 1]

\* The label plane of slice k (0-based) in a sequence of planes; a plane
\* that does not exist yet reads as zeros.
PlaneOf(planes, k) ==
    IF planes[k + 1] = <<>> THEN EmptyPlane(stack[k + 1]) ELSE planes[k + 1]

PlaneBefore == PlaneOf(stroke.before, stroke.slice)

PlaneAfter == PlaneOf(labelmaps2D, stroke.slice)

\* The pixel the event position of the last call falls into.
CenterX == stroke.x2 \div 2

CenterY == stroke.y2 \div 2

\* The cells of the image of the last call, as <<column, row>>.
Cells == (0..(StrokeImage.columns - 1)) \X (0..(StrokeImage.rows - 1))

\* Position of a cell in a plane or in the pixel data (1-based).
At(c) == c[2] * StrokeImage.columns + c[1] + 1

\* The cell lies within the brush radius of the center pixel.
WithinBrush(c) ==
    (c[1] - CenterX) * (c[1] - CenterX) + (c[2] - CenterY) * (c[2] - CenterY)
        <= radius * radius

\* The rescaled value of a cell.
Hu(c) == StrokeImage.pixelData[At(c)] * StrokeImage.slope + StrokeImage.intercept

\* The planes of all slices but the painted one are as before the call.
OtherPlanesKept ==
    \A k \in 0..(Len(stack) - 1) :
        k # stroke.slice => labelmaps2D[k + 1] = stroke.before[k + 1]

\* Number of elements of the painted plane whose value changed.
ModifiedCount ==
    Cardinality({c \in Cells : PlaneAfter[At(c)] # PlaneBefore[At(c)]})

----------------------------------------------------------------------------
\* C12: after a stroke with an in-plane center and a segment index s >= 1,
\* a cell of the label plane holds s if it lies within the radius of the
\* center, inside the plane, and its rescaled value is at least the
\* threshold; every other element of every plane has its previous value.
C12_DiskPainted ==
    (Painted /\ stroke.segment >= 1) =>
        /\ \A c \in Cells :
              PlaneAfter[At(c)] =
                 IF WithinBrush(c) /\ Hu(c) >= configuration.threshold
                 THEN stroke.segment
                 ELSE PlaneBefore[At(c)]
        /\ OtherPlanesKept

\* C12 witness: a stroke with segment 2 at a fractional position painted
\* some cells and left others, one of them at exactly the threshold.
C12_Witness ==
    /\ Painted
    /\ stroke.segment = 2
    /\ stroke.x2 = 1
    /\ \E c \in Cells : WithinBrush(c) /\ Hu(c) = configuration.threshold
    /\ \E c \in Cells : PlaneAfter[At(c)] # 2

\* C13: a stroke with segment index 0 ignores the threshold: every cell of
\* the plane within the radius of the center holds 0 afterwards, whatever
\* its rescaled value.
C13_EraseIgnoresThreshold ==
    (Painted /\ stroke.segment = 0) =>
        \A c \in Cells : WithinBrush(c) => PlaneAfter[At(c)] = 0

\* C14: the pixel count of a stroke is the number of label elements whose
\* value differs before and after it, and this count is returned to the
\* caller.
C14_CountOfModified ==
    Painted =>
        /\ stroke.paintedPixels = ModifiedCount
        /\ stroke.returned = <<ModifiedCount>>

\* C15: a stroke assigns only to indices of cells inside the plane that lie
\* within the radius of the center: no index outside 0..rows*columns-1, and
\* none that belongs to a cell of another row reached by wrapping.
C15_WritesInBounds ==
    /\ \A n \in stroke.touched :
          /\ n >= 0
          /\ n < StrokeImage.rows * StrokeImage.columns
          /\ \E c \in Cells : At(c) = n + 1 /\ WithinBrush(c)
    /\ \A k \in 0..(Len(stack) - 1) :
          Len(labelmaps2D[k + 1]) \in {0, stack[k + 1].rows * stack[k + 1].columns}

\* C15 witness: a stroke centered on the corner pixel, with part of the
\* brush outside of the plane, painted.
C15_Witness ==
    /\ Painted
    /\ CenterX = 0
    /\ CenterY = 0
    /\ stroke.touched # {}

\* C16: the painted set shrinks as the threshold grows: at any threshold at
\* least (at most) the one used, the stroke would paint a subset (superset)
\* of what it painted; and when every rescaled value under the brush is
\* below the threshold, the count is 0 and the plane is unchanged.
C16_MonotoneInThreshold ==
    Painted =>
        /\ \A t \in Thresholds :
              LET other == PaintedIndices(StrokeImage, stroke.x2, stroke.y2,
                                          radius, t)
              IN  /\ t >= configuration.threshold => other \subseteq stroke.touched
                  /\ t <= configuration.threshold => stroke.touched \subseteq other
        /\ (\A c \in Cells : WithinBrush(c) => Hu(c) < configuration.threshold)
              => /\ stroke.paintedPixels = 0
                 /\ PlaneAfter = PlaneBefore

\* C16 witness: a stroke at threshold 260 painted some cells, fewer than
\* the default threshold would have, and would paint none at 301.
C16_Witness ==
    /\ Painted
    /\ configuration.threshold = 260
    /\ stroke.touched # {}
    /\ PaintedIndices(StrokeImage, stroke.x2, stroke.y2, radius, 200)
          # stroke.touched
    /\ PaintedIndices(StrokeImage, stroke.x2, stroke.y2, radius, 301) = {}

\* The scenario of C17: segment 1, threshold 200, radius 3, centered on the
\* 3 x 3 image with rescaled values 150, 210, 220, 205, 300, 190, 180, 250,
\* 260, on a plane that was all zero.
C17_Scenario ==
    /\ Painted
    /\ StrokeImage = ImageA
    /\ stroke.x2 = 2
    /\ stroke.y2 = 2
    /\ stroke.segment = 1
    /\ radius = 3
    /\ configuration.threshold = 200
    /\ \A c \in Cells : PlaneBefore[At(c)] = 0

\* C17 as stated: the stroke sets exactly 5 cells to 1 and leaves 4 at 0.
C17_FiveCells ==
    C17_Scenario =>
        /\ Cardinality({c \in Cells : PlaneAfter[At(c)] = 1}) = 5
        /\ Cardinality({c \in Cells : PlaneAfter[At(c)] = 0}) = 4

\* C17 amended: the stroke sets exactly the 6 cells whose values are at
\* least 200 (210, 220, 205, 300, 250, 260) to 1 and leaves the other 3
\* (150, 190, 180) at 0.
C17_SixCells ==
    C17_Scenario =>
        /\ {c \in Cells : PlaneAfter[At(c)] = 1} =
              {<<1, 0>>, <<2, 0>>, <<0, 1>>, <<1, 1>>, <<1, 2>>, <<2, 2>>}
        /\ {c \in Cells : PlaneAfter[At(c)] = 0} =
              {<<0, 0>>, <<2, 1>>, <<0, 2>>}

\* C17 witness: the scenario happened.
C17_Witness == C17_Scenario /\ stroke.paintedPixels = 6

\* C18: a stroke for which the segmentation module has no label plane ends
\* with a "no source image" error for the caller, and no element of any
\* label plane is modified.
C18_NoSourceError ==
    stroke.outcome = "nolabelmap" =>
        /\ stroke.thrown # <<>>
        /\ labelmaps2D = stroke.before

----------------------------------------------------------------------------
\* Vocabulary of the extraction properties

\* The calls of onLabelMapChange so far.
Extractions == 1..Len(labelMapLog)

\* Width * height of the image that was displayed at extraction e.
LayerSize(e) ==
    stack[labelMapLog[e].shown + 1].columns * stack[labelMapLog[e].shown + 1].rows

\* At extraction e, slice sl had a label plane whose element j (0-based) was
\* non-zero.
Labelled2D(e, sl, j) ==
    /\ j < Len(labelMapLog[e].planes[sl + 1])
    /\ labelMapLog[e].planes[sl + 1][j + 1] # 0

\* C19: in every extracted mask, the element of slice sl and in-plane index
\* j is 1 exactly when slice sl has a label plane whose element j is
\* non-zero, and 0 otherwise; a slice without plane gives an all-zero layer.
C19_MaskMirrorsPlanes ==
    \A e \in Extractions :
        \A sl \in 0..(Len(stack) - 1) : \A j \in 0..(LayerSize(e) - 1) :
            labelMapLog[e].mask[sl * LayerSize(e) + j + 1] =
                IF Labelled2D(e, sl, j) THEN 1 ELSE 0

\* C20: the mask is determined by the label planes alone: two extractions
\* made from the same plane contents, whether in direct succession or after
\* different histories, deliver identical masks.
C20_PlanesDetermineMask ==
    \A a \in Extractions : \A b \in Extractions :
        labelMapLog[a].planes = labelMapLog[b].planes
            => labelMapLog[a].mask = labelMapLog[b].mask

----------------------------------------------------------------------------
\* C21: starting from no painted slice, when one stroke with a non-zero
\* segment index paints N pixels on a slice and the label map is extracted
\* right after it, the mask has exactly N elements equal to 1, all in the
\* layer of that slice.
C21_RoundTrip ==
    \A e \in Extractions :
        (/\ strokes = 1
         /\ Painted
         /\ stroke.segment >= 1
         /\ \A k \in 1..Len(stack) : stroke.before[k] = <<>>
         /\ labelMapLog[e].planes = labelmaps2D
         /\ labelMapLog[e].shown = stroke.slice)
        => LET mask == labelMapLog[e].mask
               ones == {p \in 1..Len(mask) : mask[p] = 1}
           IN  /\ Cardinality(ones) = stroke.paintedPixels
               /\ \A p \in ones :
                     /\ p > stroke.slice * LayerSize(e)
                     /\ p <= (stroke.slice + 1) * LayerSize(e)

\* A position string with exactly three components, each a number.
WellFormed(pos) == Len(pos) = 3 /\ \A j \in 1..3 : ~IsNaN(pos[j])

\* C24: a position string that is malformed or has fewer or more than three
\* components counts as missing everywhere: its slice is ordered by the
\* default coordinate 0, and the origin of the geometry is the default or a
\* well-formed triplet of a slice, never a partial or malformed one.
C24_MalformedIsMissing ==
    Returned =>
        /\ \A j \in 1..Len(fileData) :
              ~WellFormed(Dataset(fileData[j]).pos) => fileData[j].z = Zero
        /\ \/ result.origin = <<Zero, Zero, Zero>>
           \/ WellFormed(result.origin)

\* C25: a stroke whose center lies outside of the plane still paints the
\* cells of the plane that lie within the radius of the center and meet the
\* threshold; only a brush entirely outside of the plane does nothing.
C25_OverlapPainted ==
    stroke.outcome = "outside" =>
        \A c \in Cells :
            (WithinBrush(c) /\ Hu(c) >= configuration.threshold)
                => PlaneAfter[At(c)] = stroke.segment

\* C30: extraction looks the plane of a slice up under the image id the
\* stack was built with, and so finds the plane of every slice that has
\* one.
C30_SameIdentifier ==
    \A e \in Extractions : \A sl \in 0..(Len(stack) - 1) :
        /\ labelMapLog[e].ids[sl + 1] = imageIds[sl + 1]
        /\ labelMapLog[e].planes[sl + 1] # <<>> => sl \in labelMapLog[e].found

----------------------------------------------------------------------------
\* Vocabulary of the series properties

\* The files that parse.
Accepted == {k \in 1..Len(files) : files[k].dicom}

\* A sequence of file indices holds every accepted file once, by ascending
\* through-plane coordinate, files of equal coordinate in input order.
InSeriesOrder(seq) ==
    /\ Len(seq) = Cardinality(Accepted)
    /\ {seq[j] : j \in 1..Len(seq)} = Accepted
    /\ \A a \in 1..Len(seq) : \A b \in (a + 1)..Len(seq) :
          \/ Lt(DeclaredZ(files[seq[a]]), DeclaredZ(files[seq[b]]))
          \/ /\ DeclaredZ(files[seq[a]]) = DeclaredZ(files[seq[b]])
             /\ seq[a] < seq[b]

\* The file indices of the loader's sorted slices.
VolumeOrder == [j \in 1..Len(fileData) |-> fileData[j].file]

\* The loader has joined its parse tasks and sorted.
VolumeJoined == pc # "parsing" /\ fileData # <<>>

\* C22: the mask that extractLabelMap delivers has the extents of the
\* volume built from the same files: its layers have columns * rows
\* elements and its length is columns * rows * slice count of the volume,
\* whichever slice is displayed.
C22_MaskCongruent ==
    Returned =>
        \A e \in Extractions :
            /\ LayerSize(e) = columns * rows
            /\ Len(labelMapLog[e].mask) = Len(result.scalars)

\* C23: in the loader and in the viewer, the sorted slice sequence does not
\* depend on the order in which the parse tasks complete: it holds every
\* file that parses once, in the order of the series, a file that fails is
\* left out, and the geometry is the one resolved from that sequence.
C23_JoinedBeforeSort ==
    /\ VolumeJoined =>
          /\ InSeriesOrder(VolumeOrder)
          /\ rows = DimOrDefault(Dataset(Middle(fileData)).rowsTag)
          /\ columns = DimOrDefault(Dataset(Middle(fileData)).colsTag)
          /\ spacingZ = ResolveSpacingZ(fileData)
          /\ origin = ResolveOrigin(fileData)
    /\ sortedFiles # <<>> => InSeriesOrder(sortedFiles)

\* C23 witness: both joins happened for three files of which one failed to
\* parse and the two others have the same coordinate.
C23_Witness ==
    /\ VolumeJoined
    /\ sortedFiles # <<>>
    /\ Len(files) = 3
    /\ Len(sortedFiles) = 2
    /\ DeclaredZ(files[sortedFiles[1]]) = DeclaredZ(files[sortedFiles[2]])

\* C28: the viewer and the loader order the same files alike: layer j of
\* the mask and layer j of the volume belong to the same file.
C28_SameOrder ==
    (VolumeJoined /\ sortedFiles # <<>>) => sortedFiles = VolumeOrder

\* C28 witness: both orders exist for files that were not given in series
\* order, two of them with the same coordinate, one without position.
C28_Witness ==
    /\ VolumeJoined
    /\ sortedFiles # <<>>
    /\ Len(sortedFiles) = 3
    /\ sortedFiles[1] > sortedFiles[3]
    /\ DeclaredZ(files[sortedFiles[1]]) = DeclaredZ(files[sortedFiles[2]])
    /\ \E k \in 1..3 : files[k].pos = <<>>

----------------------------------------------------------------------------
\* Vocabulary of the VTKViewer properties

\* The last generate3DVolume call has finished and its build gave null.
BuildFailed == generation = "idle" /\ result.kind = "null"

\* C26: a generate3DVolume call whose createVolumeFromFiles gave null ends
\* with exactly one alert, no volume in the renderer, isGenerated false, no
\* volume metadata stored and isLoading false.
C26_SingleFailure ==
    BuildFailed =>
        /\ alerts = 1
        /\ volume = <<>>
        /\ ~isGenerated
        /\ volumeMetadata = <<>>
        /\ ~isLoading

\* C26 witness: the build of a file that does not parse gave null, and the
\* files prop changed during the build.
C26_Witness ==
    /\ BuildFailed
    /\ files = <<NonDicom>>
    /\ filesProp # files
    /\ alerts = 1

\* C27: whenever isGenerated holds, the volume in the renderer and the
\* stored metadata come from the build of the current files prop.
C27_CurrentFiles ==
    isGenerated =>
        /\ volume # <<>>
        /\ volumeMetadata # <<>>
        /\ files = filesProp

====
